---- MODULE Spec2Model ----
(***************************************************************************)
(* build.py of PhantomJS: one run of main(), from the parsing of the       *)
(* command line to the exit of the process.  Every console echo of a       *)
(* command and every spawned process is recorded in `events`.              *)
(***************************************************************************)
EXTENDS Integers, Sequences, FiniteSets, TLC

VARIABLES
    pc,           \* position of the run inside main() / PhantomJSBuilder.run()
    argv,         \* what parse_args() returns for this command line (never changes)
    environ,      \* the host: platform.system(), cpu_count(), MAKEFLAGS, OPENSSL
    fs,           \* answers the file system gave so far (isdir, exists, isExe, which)
    options,      \* PhantomJSBuilder.options (the Namespace, skip_git may be forced)
    makeCommand,  \* PhantomJSBuilder.makeCommand, a list of python values
    events,       \* echoes (print in execute) and spawns (Popen, subprocess.call)
    error,        \* the exception in flight, if any
    exitCode,     \* exit status of the process, -1 while it runs
    stderr,       \* what was written to the error stream
    prompts,      \* number of "Do you want to continue" prompts written
    answer,       \* main()'s local `answer`: the last line read, stripped, lowered
    childEnv      \* variables set with os.putenv for the children

vars == <<pc, argv, environ, fs, options, makeCommand, events, error, exitCode,
          stderr, prompts, answer, childEnv>>

(***************************************************************************)
(* Bounds of the model.                                                    *)
(***************************************************************************)
\* exit statuses an external tool returns: 0..MaxRet
MaxRet == 1
\* cpu_count() of the host: 1..MaxCpu
MaxCpu == 2
\* an explicit --jobs value: 0..MaxJobs
MaxJobs == 2
\* number of values of a repeatable option (--qt-config, --qmake-args, ...)
MaxExtra == 2
\* number of confirmation prompts written before the model stops re-prompting
MaxPrompts == 2

RetCodes == 0..MaxRet

(***************************************************************************)
(* Python values.  A command is a list of str and int (the job count is    *)
(* an int until execute() converts it).                                    *)
(***************************************************************************)
PyStr(s) == [str |-> s]
PyInt(n) == [int |-> n]
Strs(seq) == [i \in DOMAIN seq |-> PyStr(seq[i])]
\* str(c)
str(c) == IF "int" \in DOMAIN c THEN ToString(c.int) ELSE c.str
\* None / an absent list: the empty sequence.  jobs is <<>> or <<n>>.
None == <<>>
\* truth value of options.jobs: None and 0 are false
JobsTruthy(jobs) == jobs # None /\ jobs[1] # 0

\* root = directory of the script, the working directory after os.chdir
root == "/phantomjs"
\* os.path.abspath(p) with the working directory at root ('.' and a trailing
\* slash are normalised away)
abspath(p) ==
    CASE p = "." -> root
      [] p = "src/qt/qtbase/lib/" -> root \o "/src/qt/qtbase/lib"
      [] p = "src/qt/qtbase/mkspecs/modules/" -> root \o "/src/qt/qtbase/mkspecs/modules"
      [] OTHER -> root \o "/" \o p

Platforms == {"Windows", "Darwin", "Linux"}

(***************************************************************************)
(* The Namespace parse_args() returns.  Defaults are argparse's: False for *)
(* store_true, None for the others.                                        *)
(***************************************************************************)
DefaultOptions ==
    [release |-> FALSE, debug |-> FALSE, jobs |-> None, confirm |-> FALSE,
     dry_run |-> FALSE, silent |-> FALSE,
     qmake_args |-> None, webkit_qmake_args |-> None,
     phantomjs_qmake_args |-> None, qt_config |-> None,
     git_clean_qtbase |-> FALSE, git_clean_qtwebkit |-> FALSE,
     skip_qtbase |-> FALSE, skip_configure_qtbase |-> FALSE,
     skip_qtwebkit |-> FALSE, skip_configure_qtwebkit |-> FALSE,
     skip_git |-> FALSE, disable_touch_events |-> FALSE]

\* an exception: its type and its message, the message as the pieces of text it
\* is formatted from ("...: %s" % path is <<"...: ", path>>)
NoError == [type |-> "", msg |-> <<>>]
\* the error stream: whether "ERROR: Failed to build PhantomJS! %s" was written,
\* and the message of the exception it or the traceback shows
NoStderr == [uniform |-> FALSE, cause |-> <<>>]

(***************************************************************************)
(* Command lines and hosts the runs start from.  A command line is given   *)
(* as the Namespace argparse produces for it.                              *)
(***************************************************************************)
\* the store_true switches that steer the pipeline
ControlSwitches ==
    {"release", "debug", "confirm", "dry_run", "git_clean_qtbase",
     "git_clean_qtwebkit", "skip_qtbase", "skip_configure_qtbase",
     "skip_qtwebkit", "skip_git"}

\* every combination of the steering switches, the other options left out
ControlOptions ==
    {[f \in DOMAIN DefaultOptions |->
         IF f \in ControlSwitches THEN f \in S ELSE DefaultOptions[f]] :
     S \in SUBSET ControlSwitches}

\* non-empty lists of at most MaxExtra values, and None (option not given)
RECURSIVE ListsOf(_, _)
ListsOf(V, n) ==
    IF n = 0 THEN {<<>>}
    ELSE LET shorter == ListsOf(V, n - 1)
         IN  shorter \cup {Append(l, v) : l \in {s \in shorter : Len(s) = n - 1}, v \in V}
ExtraLists(V) == ListsOf(V, MaxExtra)

\* values of --qt-config: pieces of text, " " being a space inside the value
QtConfigValues == {<<"-no-a">>, <<"-no-b", " ", "-no-c">>}
QmakeArgValues == {"CONFIG+=x", "-r"}
JobValues == {None} \cup {<<n>> : n \in (-1)..MaxJobs}

\* command lines with --confirm, with and without --dry-run
Plain == {[DefaultOptions EXCEPT !.confirm = TRUE, !.dry_run = d] : d \in BOOLEAN}
\* command lines that vary the options read by Qt Base configure
ConfigureOptions ==
    {[o EXCEPT !.debug = d, !.release = r, !.silent = s, !.qt_config = q] :
     o \in Plain, d \in BOOLEAN, r \in BOOLEAN, s \in BOOLEAN,
     q \in ExtraLists(QtConfigValues)}
\* command lines that vary the job count
MakeOptions == {[o EXCEPT !.jobs = j] : o \in Plain, j \in JobValues}
\* command lines that vary the options read by the qmake call
QmakeOptions ==
    {[o EXCEPT !.qmake_args = q, !.phantomjs_qmake_args = p] :
     o \in Plain, q \in ExtraLists(QmakeArgValues), p \in ExtraLists(QmakeArgValues)}
\* command lines that vary the Qt WebKit options
WebKitOptions ==
    {[o EXCEPT !.webkit_qmake_args = w, !.disable_touch_events = t,
               !.skip_configure_qtwebkit = c] :
     o \in Plain, w \in ExtraLists(QmakeArgValues), t \in BOOLEAN, c \in BOOLEAN}

\* values of MAKEFLAGS, character by character (<<>>: unset, getenv's default "")
Makeflags ==
    {<<>>, <<"-", "j", "4">>, <<"-", "j", " ", "8">>, <<"-", "j">>,
     <<"-", "k", " ", "-", "j", "4">>}
\* values of OPENSSL ("" : unset, getenv's default)
OpensslDirs == {"", "/opt/ssl"}

Host(sys, cpus, mf, ssl) ==
    [system |-> sys, cpu_count |-> cpus, MAKEFLAGS |-> mf, OPENSSL |-> ssl]
\* hosts that differ in what decides the pipeline's path (OPENSSL is read on
\* Darwin only)
ControlHosts ==
    {h \in {Host(s, MaxCpu, <<>>, o) : s \in Platforms, o \in OpensslDirs} :
        h.OPENSSL # "" => h.system = "Darwin"}
\* hosts that differ in what decides the make command
MakeHosts ==
    {Host(s, c, m, "") : s \in Platforms, c \in 1..MaxCpu, m \in Makeflags}

\* --silent is not an option of the parser on Windows (build.py:438)
Parses(o, h) == o.silent => h.system # "Windows"

(***************************************************************************)
(* Text helpers of the standard library, on lists of characters.           *)
(***************************************************************************)
IsSpace(c) == c \in {" ", "\t", "\n", "\r"}
IsDigit(c) == c \in {"0", "1", "2", "3", "4", "5", "6", "7", "8", "9"}

RECURSIVE SkipSpaces(_, _)
SkipSpaces(s, i) == IF i <= Len(s) /\ IsSpace(s[i]) THEN SkipSpaces(s, i + 1) ELSE i

\* re.match("-j\s*[0-9]+", s): anchored at the start of s, not at its end
ReMatchJobs(s) ==
    /\ Len(s) >= 2
    /\ s[1] = "-"
    /\ s[2] = "j"
    /\ LET k == SkipSpaces(s, 3) IN k <= Len(s) /\ IsDigit(s[k])

\* str.strip()
RECURSIVE LStrip(_)
LStrip(s) == IF s # <<>> /\ IsSpace(Head(s)) THEN LStrip(Tail(s)) ELSE s
RECURSIVE RStrip(_)
RStrip(s) ==
    IF s # <<>> /\ IsSpace(s[Len(s)]) THEN RStrip(SubSeq(s, 1, Len(s) - 1)) ELSE s
Strip(s) == RStrip(LStrip(s))
\* str.lower(), on the letters the model reads
LowerChar(c) == CASE c = "N" -> "n" [] c = "Y" -> "y" [] c = "X" -> "x" [] OTHER -> c
Lower(s) == [i \in DOMAIN s |-> LowerChar(s[i])]

\* lines sys.stdin.readline() may return (<<>>: end of input)
StdinLines ==
    {<<"n", "\n">>, <<"N", "\n">>, <<"y", "\n">>, <<" ", "Y", " ", "\n">>,
     <<"\n">>, <<>>, <<"x", "\n">>, <<"n", "o", "\n">>}

(***************************************************************************)
(* Events: what the run wrote as "Executing in ..." and what it spawned.   *)
(*   op   "echo" (print in execute), "Popen" (subprocess.Popen in execute) *)
(*        or "call" (subprocess.call(..., shell=True))                     *)
(*   step the place in the code that issued it                             *)
(***************************************************************************)
\*   returncode  the exit status of a "Popen" child; -1 where the run never
\*        learns one (an echo) or drops it unread (a "call")
Event(op, step, cwd, cmd, returncode) ==
    [op |-> op, step |-> step, cwd |-> cwd, cmd |-> cmd, returncode |-> returncode]

\* PhantomJSBuilder.execute: the events it adds and the value it returns, rc being
\* the exit status the child ends with when it is spawned
execute(opts, command, workingDirectory, step, rc) ==
    LET cmd == [i \in DOMAIN command |-> str(command[i])]
        wd == abspath(workingDirectory)
    IN  IF opts.dry_run
        THEN [events |-> <<Event("echo", step, wd, cmd, -1)>>, ret |-> 0]
        ELSE [events |-> <<Event("echo", step, wd, cmd, -1),
                           Event("Popen", step, wd, cmd, rc)>>,
              ret |-> rc]

\* subprocess.call(" ".join(command), shell=True): run from the working
\* directory of the script, never echoed, its status dropped
shellCall(command, step) == <<Event("call", step, root, command, -1)>>

\* raise <type>(msg): control leaves run() for the handler in main()
Raise(type, msg) ==
    /\ pc' = "raised"
    /\ error' = [type |-> type, msg |-> msg]

(***************************************************************************)
(* The state before main() runs.                                           *)
(***************************************************************************)
\* `answer` before the first line is read
NoAnswer == <<"unassigned">>

NoReads == [isdir_git |-> "unread", which_jom |-> "unread", isExe_qmake |-> "unread",
            probed |-> <<>>]

Start(cmdlines, hosts) ==
    /\ pc = "main"
    /\ environ \in hosts
    /\ argv \in {o \in cmdlines : Parses(o, environ)}
    /\ fs = NoReads
    /\ options = DefaultOptions
    /\ makeCommand = <<>>
    /\ events = <<>>
    /\ error = NoError
    /\ exitCode = -1
    /\ stderr = NoStderr
    /\ prompts = 0
    /\ answer = NoAnswer
    /\ childEnv = {}

Init == Start(ControlOptions, ControlHosts)

(***************************************************************************)
(* parseArguments, and main() up to the confirmation prompt.               *)
(***************************************************************************)
\* faulty variant: no check of the mode flags
NoModeConflict(o) == FALSE

\* the check parseArguments makes on the Namespace (build.py:480)
ModeConflict(o) == o.debug /\ o.release

ParseArguments ==
    /\ pc = "main"
    /\ IF ModeConflict(argv)
       THEN /\ Raise("RuntimeError", <<"Cannot build with both debug and release mode enabled.">>)
            /\ UNCHANGED options
       ELSE /\ options' = argv
            /\ pc' = IF ~argv.confirm THEN "prompt" ELSE "construct"
            /\ UNCHANGED error
    /\ UNCHANGED <<argv, environ, fs, makeCommand, events, exitCode, stderr, prompts, answer, childEnv>>

\* faulty variant: whatever is answered, the build goes on
AnswerAlwaysProceeds(line) == "proceed"

\* what main() does with the answer read: "cancel", "proceed" or "again"
Answer(line) ==
    LET read == Lower(Strip(line))
    IN  IF read = <<"n">> THEN "cancel"
        ELSE IF read = <<"y">> \/ read = <<>> THEN "proceed"
        ELSE "again"

\* one turn of the while loop: write the prompt, read a line
Prompt ==
    /\ pc = "prompt"
    /\ prompts' = prompts + 1
    /\ \E line \in StdinLines :
          /\ Answer(line) = "again" => prompts + 1 < MaxPrompts
          /\ answer' = Lower(Strip(line))
          /\ pc' = CASE Answer(line) = "cancel" -> "exit"
                     [] Answer(line) = "proceed" -> "construct"
                     [] OTHER -> "prompt"
          /\ exitCode' = IF Answer(line) = "cancel" THEN 0 ELSE exitCode
    /\ UNCHANGED <<argv, environ, fs, options, makeCommand, events, error, stderr, childEnv>>

\* except RuntimeError in main(); any other exception leaves main() and the
\* interpreter prints its traceback.  Either way the process exits with 1.
MainExcept ==
    /\ pc = "raised"
    /\ stderr' = [uniform |-> error.type = "RuntimeError", cause |-> error.msg]
    /\ exitCode' = 1
    /\ pc' = "exit"
    /\ UNCHANGED <<argv, environ, fs, options, makeCommand, events, error, prompts, answer, childEnv>>

(***************************************************************************)
(* Static data of the script.                                              *)
(***************************************************************************)
third_party_names == <<"libicu", "libxml", "openssl", "zlib">>
third_party_path == root \o "/src/qt/3rdparty"
qt_compile_defs ==
    <<"QT_NO_GRAPHICSVIEW", "QT_NO_GRAPHICSEFFECT", "QT_NO_STYLESHEET",
      "QT_NO_STYLE_CDE", "QT_NO_STYLE_CLEANLOOKS", "QT_NO_STYLE_MOTIF",
      "QT_NO_STYLE_PLASTIQUE", "QT_NO_PRINTPREVIEWDIALOG">>

openssl_search_paths ==
    <<[name |-> "Brew",
       header |-> "/usr/local/opt/openssl/include/openssl/opensslv.h",
       flags |-> <<"-I/usr/local/opt/openssl/include", "-L/usr/local/opt/openssl/lib">>],
      [name |-> "MacPorts",
       header |-> "/opt/local/include/openssl/opensslv.h",
       flags |-> <<"-I/opt/local/include", "-L/opt/local/lib">>]>>

\* sep.join(list) for a list of str
RECURSIVE Join(_, _)
Join(list, sep) ==
    IF list = <<>> THEN ""
    ELSE IF Len(list) = 1 THEN list[1]
    ELSE list[1] \o sep \o Join(Tail(list), sep)

\* the concatenation of a list of lists
RECURSIVE Concat(_)
Concat(lists) == IF lists = <<>> THEN <<>> ELSE Head(lists) \o Concat(Tail(lists))

\* qmakePath()
qmakePath(env) ==
    abspath("src/qt/qtbase/bin/" \o (IF env.system = "Windows" THEN "qmake.exe" ELSE "qmake"))

\* findThirdPartyDeps(): (include_dirs, lib_dirs); os.path.join written with "/"
RECURSIVE ThirdPartyDirs(_, _, _)
ThirdPartyDirs(names, flag, sub) ==
    IF names = <<>> THEN <<>>
    ELSE <<flag, third_party_path \o "/" \o Head(names) \o "/" \o sub>>
         \o ThirdPartyDirs(Tail(names), flag, sub)
findThirdPartyDeps ==
    <<ThirdPartyDirs(third_party_names, "-I", "include"),
      ThirdPartyDirs(third_party_names, "-L", "lib")>>

(***************************************************************************)
(* PhantomJSBuilder.__init__                                               *)
(***************************************************************************)
\* results of which("jom.exe"): "" stands for None
WhichResults == {"", "C:/Qt/Tools/jom.exe"}

\* faulty variant: the default job count is set whatever MAKEFLAGS says
MakeCommandIgnoresHint(opts, env, jom) ==
    IF env.system = "Windows"
    THEN Strs(<<IF jom = "" THEN "nmake" ELSE jom, "/NOLOGO">>)
    ELSE <<PyStr("make")>> \o
         (IF JobsTruthy(opts.jobs)
          THEN <<PyStr("-j"), PyInt(opts.jobs[1])>>
          ELSE <<PyStr("-j"), PyInt(env.cpu_count)>>)

\* the make command __init__ sets up; jom is what which("jom.exe") returned
MakeCommand(opts, env, jom) ==
    IF env.system = "Windows"
    THEN Strs(<<IF jom = "" THEN "nmake" ELSE jom, "/NOLOGO">>)
    ELSE LET flags ==
                 IF JobsTruthy(opts.jobs)
                 THEN <<PyStr("-j"), PyInt(opts.jobs[1])>>
                 ELSE IF ~ReMatchJobs(env.MAKEFLAGS)
                 THEN <<PyStr("-j"), PyInt(env.cpu_count)>>
                 ELSE <<>>
         IN  <<PyStr("make")>> \o flags

\* faulty variant: the options are left as given
KeepSkipGit(opts, isdir_git) == opts

\* no .git directory: go into no-git mode
ForceSkipGit(opts, isdir_git) ==
    IF ~isdir_git THEN [opts EXCEPT !.skip_git = TRUE] ELSE opts

Construct ==
    /\ pc = "construct"
    /\ \E jom \in (IF environ.system = "Windows" THEN WhichResults ELSE {"unread"}),
          isdir_git \in BOOLEAN :
          /\ makeCommand' = MakeCommand(options, environ, jom)
          /\ options' = ForceSkipGit(options, isdir_git)
          /\ fs' = [fs EXCEPT !.which_jom = jom,
                              !.isdir_git = IF isdir_git THEN "yes" ELSE "no"]
    /\ pc' = "submodule_init"
    /\ UNCHANGED <<argv, environ, events, error, exitCode, stderr, prompts, answer, childEnv>>

(***************************************************************************)
(* platformQtConfigureOptions and configureQtBase                          *)
(***************************************************************************)
\* the header the OPENSSL override is checked for
OverrideHeader(openssl) == openssl \o "/include/openssl/opensslv.h"

\* faulty variant: the search reports success without looking for a header
SearchOpensslAlwaysFound(paths, exists, acc) ==
    [found |-> TRUE, flags |-> acc.flags,
     probed |-> acc.probed \o [i \in DOMAIN paths |-> paths[i].header]]

\* the for loop over openssl_search_paths (build.py:228-232): every location is
\* probed, the flags of each location that has the header are added
RECURSIVE SearchOpenssl(_, _, _)
SearchOpenssl(paths, exists, acc) ==
    IF paths = <<>> THEN acc
    ELSE LET search_path == Head(paths)
         IN  SearchOpenssl(Tail(paths), exists,
                 [found |-> acc.found \/ exists[search_path.header],
                  flags |-> IF exists[search_path.header]
                            THEN acc.flags \o search_path.flags ELSE acc.flags,
                  probed |-> Append(acc.probed, search_path.header)])

WindowsOptions ==
    <<"-mp", "-static-runtime", "-no-cetest", "-no-angle", "-icu", "-openssl",
      "-openssl-linked">>
UnixOptions ==
    <<"-qpa", "phantom", "-no-qpa-platform-guard", "-openssl", "-openssl-linked",
      "-no-openvg", "-no-eglfs", "-no-egl", "-no-glib", "-no-cups", "-no-sm",
      "-no-xkb", "-no-xcb", "-no-kms", "-no-linuxfb", "-no-directfb", "-no-mtdev",
      "-no-libudev", "-no-evdev", "-no-feature-printpreviewwidget">>

\* platformQtConfigureOptions: the list it returns, or the exception it raises;
\* exists answers os.path.exists for the headers it asks about
platformQtConfigureOptions(opts, env, exists) ==
    LET ok(list, probed) ==
            [raised |-> FALSE, type |-> "", msg |-> <<>>, list |-> list, probed |-> probed]
        fail(type, msg, probed) ==
            [raised |-> TRUE, type |-> type, msg |-> msg, list |-> <<>>, probed |-> probed]
        unix == UnixOptions \o (IF opts.silent THEN <<"-silent">> ELSE <<>>)
    IN  IF env.system = "Windows"
        THEN ok(WindowsOptions \o findThirdPartyDeps[1] \o findThirdPartyDeps[2], <<>>)
        ELSE IF env.system = "Darwin"
        THEN LET darwin == unix \o <<"-no-pkg-config">>
                 openssl == env.OPENSSL
             IN  IF openssl = ""
                 THEN LET r == SearchOpenssl(openssl_search_paths, exists,
                                   [found |-> FALSE, flags |-> <<>>, probed |-> <<>>])
                      IN  IF ~r.found
                          THEN fail("RuntimeError", <<"Could not find OpenSSL">>, r.probed)
                          ELSE ok(darwin \o r.flags, r.probed)
                 ELSE IF exists[OverrideHeader(openssl)]
                      THEN ok(darwin \o <<"-I" \o openssl \o "/include",
                                          "-L" \o openssl \o "/lib">>,
                              <<OverrideHeader(openssl)>>)
                      \* openssl_found was never assigned on this path (build.py:244)
                      ELSE fail("UnboundLocalError",
                                <<"local variable 'openssl_found' referenced before assignment">>,
                                <<OverrideHeader(openssl)>>)
        ELSE ok(unix \o <<"-fontconfig", "-icu">>, <<>>)

\* ''.join(qt_config): the values' texts one after the other
JoinQtConfig(qt_config) == Concat(qt_config)

\* text.split(" "), the text given in pieces: a new word starts at every space
RECURSIVE SplitSpaces(_, _, _)
SplitSpaces(pieces, word, words) ==
    IF pieces = <<>> THEN Append(words, word)
    ELSE IF Head(pieces) = " "
    THEN SplitSpaces(Tail(pieces), "", Append(words, word))
    ELSE SplitSpaces(Tail(pieces), word \o Head(pieces), words)
Split(pieces) == SplitSpaces(pieces, "", <<>>)

\* the fixed head of the configure command (build.py:262-291)
ConfigureFixed(env) ==
    <<abspath("src/qt/qtbase/configure") \o (IF env.system = "Windows" THEN ".bat" ELSE ""),
      "-static", "-opensource", "-confirm-license",
      "-prefix", abspath("src/qt/qtbase"),
      "-qt-zlib", "-qt-libpng", "-qt-libjpeg", "-qt-pcre",
      "-nomake", "examples", "-nomake", "tools", "-nomake", "tests",
      "-no-dbus", "-no-opengl", "-no-qml-debug", "-no-sql-db2", "-no-sql-ibase",
      "-no-sql-mysql", "-no-sql-oci", "-no-sql-odbc", "-no-sql-psql",
      "-no-sql-sqlite", "-no-sql-sqlite2", "-no-sql-tds", "-no-tslib",
      "-no-xcb-xlib">>

\* -D <def> for every compile definition
RECURSIVE CompileDefs(_)
CompileDefs(defs) ==
    IF defs = <<>> THEN <<>> ELSE <<"-D", Head(defs)>> \o CompileDefs(Tail(defs))

\* the words --qt-config adds to the command (build.py:298-299)
QtConfigWords(opts) ==
    IF opts.qt_config # <<>> THEN Split(JoinQtConfig(opts.qt_config)) ELSE <<>>

\* the mode flag (build.py:301-307)
ModeFlag(opts) ==
    IF opts.debug THEN "-debug" ELSE IF opts.release THEN "-release" ELSE "-release"

\* the command configureQtBase builds, platformOptions being the platform's list
ConfigureCommand(opts, env, platformOptions) ==
    ConfigureFixed(env) \o CompileDefs(qt_compile_defs) \o platformOptions
        \o QtConfigWords(opts) \o <<ModeFlag(opts)>>

(***************************************************************************)
(* The builder's small methods.                                            *)
(***************************************************************************)
\* faulty variant: git clean that does not look at no-git mode
gitCleanAlways(opts, path, step, rc) ==
    execute(opts, Strs(<<"git", "clean", "-xfd">>), path, step, rc)

\* gitClean(path): as execute, or nothing at all in no-git mode
gitClean(opts, path, step, rc) ==
    IF opts.skip_git THEN [events |-> <<>>, ret |-> 0]
    ELSE execute(opts, Strs(<<"git", "clean", "-xfd">>), path, step, rc)

\* make(path)
make(opts, mk, path, step, rc) == execute(opts, mk, path, step, rc)

\* the command qmake(path, options) builds (build.py:164-168)
QmakeCommand(opts, env, extra) ==
    <<qmakePath(env)>>
        \o (IF opts.qmake_args # <<>> THEN opts.qmake_args ELSE <<>>)
        \o (IF extra # <<>> THEN extra ELSE <<>>)

\* faulty variant: the tool is not looked for
QmakeMissingNever(opts, isExe) == FALSE

\* faulty variant: the tool is required in a dry run too
QmakeMissingAlways(opts, isExe) == ~isExe

\* qmake refuses to go on without the tool, except in a dry run (build.py:162)
QmakeMissing(opts, isExe) == ~isExe /\ ~opts.dry_run

\* faulty variant: the failure is noted but the pipeline goes on
CheckedKeepsGoing(r, msg, next) ==
    /\ events' = events \o r.events
    /\ error' = IF r.ret # 0 THEN [type |-> "RuntimeError", msg |-> <<msg>>] ELSE error
    /\ pc' = next

\* faulty variant: the result of the call is not looked at
CheckedIgnoresResult(r, msg, next) ==
    /\ events' = events \o r.events
    /\ pc' = next
    /\ UNCHANGED error

\* a call whose nonzero result is fatal: if <call> != 0: raise RuntimeError(msg)
Checked(r, msg, next) ==
    /\ events' = events \o r.events
    /\ IF r.ret # 0
       THEN Raise("RuntimeError", <<msg>>)
       ELSE pc' = next /\ UNCHANGED error

\* a call whose result is dropped
Unchecked(evs, next) ==
    /\ events' = events \o evs
    /\ pc' = next
    /\ UNCHANGED error

\* nothing to do at this place
Goto(next) ==
    /\ pc' = next
    /\ UNCHANGED <<events, error>>

(***************************************************************************)
(* ensureSubmodulesAvailable                                               *)
(***************************************************************************)
SubmoduleInit ==
    /\ pc = "submodule_init"
    /\ IF options.skip_git
       THEN Goto("qtbase")
       ELSE \E rc \in RetCodes :
              Checked(execute(options, Strs(<<"git", "submodule", "init">>), ".",
                              "submodule_init", rc),
                      "Initialization of git submodules failed.", "submodule_update")
    /\ UNCHANGED <<argv, environ, fs, options, makeCommand, exitCode, stderr, prompts, answer, childEnv>>

SubmoduleUpdate ==
    /\ pc = "submodule_update"
    /\ \E rc \in RetCodes :
          Checked(execute(options, Strs(<<"git", "submodule", "update">>), ".",
                          "submodule_update", rc),
                  "Initial update of git submodules failed.", "qtbase")
    /\ UNCHANGED <<argv, environ, fs, options, makeCommand, exitCode, stderr, prompts, answer, childEnv>>

(***************************************************************************)
(* buildQtBase                                                             *)
(***************************************************************************)
\* the two rm commands for libraries imported from a webkit installation
RemoveImported ==
    shellCall(<<"rm", abspath("src/qt/qtbase/lib/libQt5WebKit*")>>, "qtbase_rm")
        \o shellCall(<<"rm", abspath("src/qt/qtbase/mkspecs/modules/qt_lib_webkit*")>>,
                     "qtbase_rm")

\* entry of buildQtBase: skip the stage, or remove the imported libraries
QtBaseEnter ==
    /\ pc = "qtbase"
    /\ IF options.skip_qtbase
       THEN Goto("qtwebkit")
       ELSE Unchecked(RemoveImported, "qtbase_git_clean")
    /\ UNCHANGED <<argv, environ, fs, options, makeCommand, exitCode, stderr, prompts, answer, childEnv>>

QtBaseGitClean ==
    /\ pc = "qtbase_git_clean"
    /\ IF options.git_clean_qtbase
       THEN \E rc \in RetCodes :
              Unchecked(gitClean(options, "src/qt/qtbase", "qtbase_git_clean", rc).events,
                        "qtbase_configure")
       ELSE Goto("qtbase_configure")
    /\ UNCHANGED <<argv, environ, fs, options, makeCommand, exitCode, stderr, prompts, answer, childEnv>>

\* faulty variant: configure is run whatever the skip flag says
RunsConfigureAlways(opts) == TRUE

\* whether buildQtBase calls configureQtBase (build.py:327)
RunsConfigure(opts) == opts.git_clean_qtbase \/ ~opts.skip_configure_qtbase

\* the headers platformQtConfigureOptions asks the file system about
ProbedHeaders(env) ==
    IF env.system # "Darwin" THEN {}
    ELSE IF env.OPENSSL = ""
    THEN {openssl_search_paths[i].header : i \in DOMAIN openssl_search_paths}
    ELSE {OverrideHeader(env.OPENSSL)}

QtBaseConfigure ==
    /\ pc = "qtbase_configure"
    /\ IF RunsConfigure(options)
       THEN \E exists \in [ProbedHeaders(environ) -> BOOLEAN], rc \in RetCodes :
              LET p == platformQtConfigureOptions(options, environ, exists)
              IN  /\ fs' = [fs EXCEPT !.probed = [i \in DOMAIN p.probed |->
                                                    <<p.probed[i], exists[p.probed[i]]>>]]
                  /\ IF p.raised
                     THEN Raise(p.type, p.msg) /\ UNCHANGED events
                     ELSE Checked(execute(options,
                                          Strs(ConfigureCommand(options, environ, p.list)),
                                          "src/qt/qtbase", "qtbase_configure", rc),
                                  "Configuration of Qt Base failed.", "qtbase_make")
       ELSE Goto("qtbase_make") /\ UNCHANGED fs
    /\ UNCHANGED <<argv, environ, options, makeCommand, exitCode, stderr, prompts, answer, childEnv>>

QtBaseMake ==
    /\ pc = "qtbase_make"
    /\ \E rc \in RetCodes :
          Checked(make(options, makeCommand, "src/qt/qtbase", "qtbase_make", rc),
                  "Building Qt Base failed.", "qtwebkit")
    /\ UNCHANGED <<argv, environ, fs, options, makeCommand, exitCode, stderr, prompts, answer, childEnv>>

(***************************************************************************)
(* buildQtWebKit                                                           *)
(***************************************************************************)
cmakeArgs(opts) ==
    <<"-Wno-dev",
      "-DCMAKE_INSTALL_PREFIX=" \o abspath("src/qt/qtwebkit"),
      "-DCMAKE_PREFIX_PATH=" \o abspath("src/qt/qtbase"),
      "-DQT_COMPILE_DEFINITIONS=\"" \o Join(qt_compile_defs, " ") \o "\"",
      "-DENABLE_TOOLS=OFF", "-DENABLE_API_TESTS=OFF", "-DENABLE_TEST_SUPPORT=OFF",
      "-DENABLE_FTL_JIT=OFF", "-DENABLE_INDEXED_DATABASE=OFF", "-DENABLE_GSTREAMER=OFF",
      "-DENABLE_TOUCH_EVENTS=" \o (IF opts.disable_touch_events THEN "OFF" ELSE "ON")>>

\* the build-webkit command as Popen receives it: shlex.split(" ".join(command)).
\* The cmake arguments are quoted with their own quotes escaped, and shlex.split
\* takes the quoting and the escapes away again, so they arrive as one word.
WebKitCommand(opts) ==
    <<"./Tools/Scripts/build-webkit", "--qt",
      "--cmakeargs=" \o Join(cmakeArgs(opts), " "),
      "--no-geolocation", "--no-device-orientation", "--no-opengl", "--no-video",
      "--no-video-track", "--no-netscape-plugin-api", "--no-web-audio",
      "--no-fullscreen-api", "--no-legacy-web-audio", "--no-legacy-vendor-prefixes",
      "--no-web-replay">>

\* the rm -rf of the libraries installed before (build.py:385-386)
RemoveInstalled == shellCall(<<"rm", "-rf", abspath("src/qt/qtwebkit")>>, "qtwebkit_rm")

\* the two cp commands that move the libraries into qtbase (build.py:394-397)
CopyLibraries ==
    shellCall(<<"cp", abspath("src/qt/qtwebkit/lib/libQt5WebKit*"),
                abspath("src/qt/qtbase/lib/")>>, "qtwebkit_cp")
        \o shellCall(<<"cp", abspath("src/qt/qtwebkit/mkspecs/modules/qt_lib_webkit*"),
                       abspath("src/qt/qtbase/mkspecs/modules/")>>, "qtwebkit_cp")

\* what a buildQtWebKit that is not skipped and whose build driver succeeds
\* echoes and spawns, as a function of the options and the make command
QtWebKitRun(opts, mk) ==
    (IF opts.git_clean_qtwebkit
     THEN gitClean(opts, "src/qt/webkit", "qtwebkit_git_clean", 0).events ELSE <<>>)
        \o execute(opts, Strs(WebKitCommand(opts)), "src/qt/webkit", "qtwebkit_build", 0).events
        \o RemoveInstalled
        \o execute(opts, Append(mk, PyStr("install")), "src/qt/webkit/WebKitBuild/Release",
                   "qtwebkit_install", 0).events
        \o CopyLibraries

\* entry of buildQtWebKit: skip the stage, or git clean if asked to, and putenv
QtWebKitEnter ==
    /\ pc = "qtwebkit"
    /\ IF options.skip_qtwebkit
       THEN Goto("phantomjs") /\ UNCHANGED childEnv
       ELSE /\ IF options.git_clean_qtwebkit
               THEN \E rc \in RetCodes :
                      Unchecked(gitClean(options, "src/qt/webkit", "qtwebkit_git_clean",
                                         rc).events,
                                "qtwebkit_build")
               ELSE Goto("qtwebkit_build")
            /\ childEnv' = childEnv \cup
                   {<<"SQLITE3SRCDIR", abspath("src/qt/qtbase/src/3rdparty/sqlite")>>}
    /\ UNCHANGED <<argv, environ, fs, options, makeCommand, exitCode, stderr, prompts, answer>>

QtWebKitBuild ==
    /\ pc = "qtwebkit_build"
    /\ \E rc \in RetCodes :
          Checked(execute(options, Strs(WebKitCommand(options)), "src/qt/webkit",
                          "qtwebkit_build", rc),
                  "Building Qt WebKit failed.", "qtwebkit_rm")
    /\ UNCHANGED <<argv, environ, fs, options, makeCommand, exitCode, stderr, prompts, answer, childEnv>>

\* removing the old libraries installed
QtWebKitRemove ==
    /\ pc = "qtwebkit_rm"
    /\ Unchecked(RemoveInstalled, "qtwebkit_install")
    /\ UNCHANGED <<argv, environ, fs, options, makeCommand, exitCode, stderr, prompts, answer, childEnv>>

\* installing the new libraries: make install, its result dropped
QtWebKitInstall ==
    /\ pc = "qtwebkit_install"
    /\ \E rc \in RetCodes :
          Unchecked(execute(options, Append(makeCommand, PyStr("install")),
                            "src/qt/webkit/WebKitBuild/Release", "qtwebkit_install",
                            rc).events,
                    "qtwebkit_cp")
    /\ UNCHANGED <<argv, environ, fs, options, makeCommand, exitCode, stderr, prompts, answer, childEnv>>

\* moving the needed libraries into qtbase
QtWebKitCopy ==
    /\ pc = "qtwebkit_cp"
    /\ Unchecked(CopyLibraries, "phantomjs")
    /\ UNCHANGED <<argv, environ, fs, options, makeCommand, exitCode, stderr, prompts, answer, childEnv>>

(***************************************************************************)
(* buildPhantomJS                                                          *)
(***************************************************************************)
PhantomJSQmake ==
    /\ pc = "phantomjs"
    /\ \E isExe \in BOOLEAN, rc \in RetCodes :
          /\ fs' = [fs EXCEPT !.isExe_qmake = IF isExe THEN "yes" ELSE "no"]
          /\ IF QmakeMissing(options, isExe)
             THEN /\ Raise("RuntimeError",
                           <<"Could not find QMake executable: ", qmakePath(environ)>>)
                  /\ UNCHANGED events
             ELSE Checked(execute(options,
                                  Strs(QmakeCommand(options, environ,
                                                    options.phantomjs_qmake_args)),
                                  ".", "phantomjs_qmake", rc),
                          "Configuration of PhantomJS failed.", "phantomjs_make")
    /\ UNCHANGED <<argv, environ, options, makeCommand, exitCode, stderr, prompts, answer, childEnv>>

\* the last step: when make succeeds run() and main() return, the exit status is 0
PhantomJSMake ==
    /\ pc = "phantomjs_make"
    /\ \E rc \in RetCodes :
          LET r == make(options, makeCommand, ".", "phantomjs_make", rc)
          IN  /\ Checked(r, "Building PhantomJS failed.", "exit")
              /\ exitCode' = IF r.ret = 0 THEN 0 ELSE exitCode
    /\ UNCHANGED <<argv, environ, fs, options, makeCommand, stderr, prompts, answer, childEnv>>

(***************************************************************************)
(* A whole run as a function of its inputs: what run() echoes and spawns   *)
(* when every child exits 0, no exception is raised and qmake is there.    *)
(*   opts    the builder's options (skip_git as forced by __init__)        *)
(*   mk      the builder's make command                                    *)
(*   exists  the answers of os.path.exists for the OpenSSL headers         *)
(***************************************************************************)
SubmodulesRun(opts) ==
    IF opts.skip_git THEN <<>>
    ELSE execute(opts, Strs(<<"git", "submodule", "init">>), ".", "submodule_init", 0).events
         \o execute(opts, Strs(<<"git", "submodule", "update">>), ".",
                    "submodule_update", 0).events

QtBaseRun(opts, env, mk, exists) ==
    IF opts.skip_qtbase THEN <<>>
    ELSE RemoveImported
         \o (IF opts.git_clean_qtbase
             THEN gitClean(opts, "src/qt/qtbase", "qtbase_git_clean", 0).events ELSE <<>>)
         \o (IF RunsConfigure(opts)
             THEN execute(opts,
                          Strs(ConfigureCommand(opts, env,
                                   platformQtConfigureOptions(opts, env, exists).list)),
                          "src/qt/qtbase", "qtbase_configure", 0).events
             ELSE <<>>)
         \o make(opts, mk, "src/qt/qtbase", "qtbase_make", 0).events

PhantomJSRun(opts, env, mk) ==
    execute(opts, Strs(QmakeCommand(opts, env, opts.phantomjs_qmake_args)), ".",
            "phantomjs_qmake", 0).events
        \o make(opts, mk, ".", "phantomjs_make", 0).events

Run(opts, env, mk, exists) ==
    SubmodulesRun(opts)
        \o QtBaseRun(opts, env, mk, exists)
        \o (IF opts.skip_qtwebkit THEN <<>> ELSE QtWebKitRun(opts, mk))
        \o PhantomJSRun(opts, env, mk)

(***************************************************************************)
(* The run.                                                                *)
(***************************************************************************)
Next ==
    \/ ParseArguments
    \/ Prompt
    \/ Construct
    \/ SubmoduleInit
    \/ SubmoduleUpdate
    \/ QtBaseEnter
    \/ QtBaseGitClean
    \/ QtBaseConfigure
    \/ QtBaseMake
    \/ QtWebKitEnter
    \/ QtWebKitBuild
    \/ QtWebKitRemove
    \/ QtWebKitInstall
    \/ QtWebKitCopy
    \/ PhantomJSQmake
    \/ PhantomJSMake
    \/ MainExcept

\* every combination of the steering switches
Spec == Init /\ [][Next]_vars

\* the options that shape the command lines, one command at a time
InitArgs ==
    \/ Start(ConfigureOptions, ControlHosts)
    \/ Start(MakeOptions, MakeHosts)
    \/ Start(QmakeOptions \cup WebKitOptions \cup {DefaultOptions},
             {h \in ControlHosts : h.OPENSSL = ""})

SpecArgs == InitArgs /\ [][Next]_vars

(***************************************************************************)
(* Reading the events.                                                     *)
(***************************************************************************)
IsEcho(e) == e.op = "echo"
IsSpawn(e) == e.op \in {"Popen", "call"}
Echoes == SelectSeq(events, IsEcho)
IsGit(e) == e.cmd[1] = "git"

\* the stage an event belongs to, told from its command and working directory:
\* 1 fetch dependencies, 2 base layer, 3 engine layer, 4 application layer
QtBaseDir == abspath("src/qt/qtbase")
QtWebKitDirs == {abspath("src/qt/webkit"), abspath("src/qt/webkit/WebKitBuild/Release")}
StageOf(e) ==
    IF IsGit(e) /\ e.cmd[2] = "submodule" THEN 1
    ELSE IF \/ e.cwd = QtBaseDir
            \/ (e.op = "call" /\ e.cmd[1] = "rm" /\ e.cmd[2] # "-rf")
    THEN 2
    ELSE IF e.cwd \in QtWebKitDirs \/ e.op = "call"
    THEN 3
    ELSE 4

\* the builder was constructed: no mode conflict, the prompt not declined
Constructed == fs.isdir_git # "unread"

(***************************************************************************)
(* C1: with dry_run set no external process is ever spawned, whatever the  *)
(* other options are: every event of the run is an echo.                   *)
(***************************************************************************)
C1_DryRunNeverSpawns ==
    argv.dry_run => \A i \in DOMAIN events : ~IsSpawn(events[i])

(***************************************************************************)
(* C2: the invocations of a run appear in the order fetch dependencies,    *)
(* base layer, engine layer, application layer; and once an error is       *)
(* raised nothing more is invoked: the next step ends the run with exit    *)
(* code 1 and an error message that carries the cause raised.              *)
(***************************************************************************)
\* no event is followed by an event of an earlier stage
InStageOrder(evs) ==
    \A i \in 1..(Len(evs) - 1) : StageOf(evs[i]) <= StageOf(evs[i + 1])

C2_StageOrderAndAbort ==
    [][/\ InStageOrder(events')
       /\ error # NoError =>
            /\ events' = events
            /\ error' = error
            /\ pc' = "exit"
            /\ exitCode' = 1
            /\ stderr'.cause = error.msg]_vars

\* a run in which the engine's build driver failed after the base layer was built
C2_Witness ==
    /\ pc = "exit"
    /\ exitCode = 1
    /\ error.msg = <<"Building Qt WebKit failed.">>
    /\ stderr.cause = error.msg
    /\ \E i, j \in DOMAIN events :
          i < j /\ StageOf(events[i]) = 2 /\ StageOf(events[j]) = 3

(***************************************************************************)
(* C3: every invocation made through execute that returns a nonzero status *)
(* aborts the run with exit code 1, and no later invocation is made: a     *)
(* child that ended nonzero is the last event of the run.                  *)
(***************************************************************************)
C3_NonzeroAborts ==
    \A i \in DOMAIN events :
        (events[i].op = "Popen" /\ events[i].returncode # 0) =>
            /\ i = Len(events)
            /\ pc \in {"raised", "exit"}
            /\ pc = "exit" => exitCode = 1

(***************************************************************************)
(* C4: with skip_qtbase no base-stage sub-step is invoked, with            *)
(* skip_qtwebkit no engine-stage sub-step, with skip_git no git command,   *)
(* whatever the other options and the tools' results are.                  *)
(***************************************************************************)
C4_SkipFlags ==
    /\ argv.skip_qtbase => \A i \in DOMAIN events : StageOf(events[i]) # 2
    /\ argv.skip_qtwebkit => \A i \in DOMAIN events : StageOf(events[i]) # 3
    /\ argv.skip_git => \A i \in DOMAIN events : ~IsGit(events[i])

\* a finished run that skipped the base stage and git although asked to git clean
\* both trees, and still built the engine
C4_Witness ==
    /\ pc = "exit"
    /\ exitCode = 0
    /\ argv.skip_qtbase /\ argv.skip_git /\ ~argv.skip_qtwebkit
    /\ argv.git_clean_qtbase /\ argv.git_clean_qtwebkit
    /\ fs.isdir_git = "yes"
    /\ \E i \in DOMAIN events : events[i].op = "Popen" /\ StageOf(events[i]) = 3

(***************************************************************************)
(* C5: when no .git directory exists as the builder is constructed, no git *)
(* command is invoked for the rest of the run, also without skip_git and   *)
(* with git_clean_qtbase or git_clean_qtwebkit.                            *)
(***************************************************************************)
C5_NoGitDirNoGit ==
    fs.isdir_git = "no" => \A i \in DOMAIN events : ~IsGit(events[i])

\* a finished run without .git, without --skip-git, asked to git clean both trees
C5_Witness ==
    /\ pc = "exit"
    /\ exitCode = 0
    /\ fs.isdir_git = "no"
    /\ ~argv.skip_git /\ ~argv.dry_run
    /\ argv.git_clean_qtbase /\ argv.git_clean_qtwebkit
    /\ ~argv.skip_qtbase /\ ~argv.skip_qtwebkit

(***************************************************************************)
(* C6: with skip_qtbase, skip_qtwebkit and dry_run set, a run of the       *)
(* pipeline echoes only the application's qmake command and then its make  *)
(* command and exits with code 0, on every platform, whatever the other    *)
(* options are and whether or not a .git directory is present.             *)
(***************************************************************************)
OnlyApplicationEchoed ==
    /\ Len(Echoes) = 2
    /\ Echoes[1].cwd = root /\ Echoes[1].cmd[1] = qmakePath(environ)
    /\ Echoes[2].cwd = root
    /\ Echoes[2].cmd = [i \in DOMAIN makeCommand |-> str(makeCommand[i])]
    /\ events = Echoes

C6_OnlyApplicationEchoed ==
    (/\ argv.skip_qtbase /\ argv.skip_qtwebkit /\ argv.dry_run
     /\ Constructed /\ pc = "exit") =>
        OnlyApplicationEchoed /\ exitCode = 0

\* C6 as amended: the same, for the runs in no-git mode (skip_git given, or no
\* .git directory at the root).
C6_OnlyApplicationEchoedNoGit ==
    (/\ argv.skip_qtbase /\ argv.skip_qtwebkit /\ argv.dry_run
     /\ Constructed /\ pc = "exit"
     /\ (argv.skip_git \/ fs.isdir_git = "no")) =>
        OnlyApplicationEchoed /\ exitCode = 0

\* such a dry run, finished on a host where qmake was never built
C6_Witness ==
    /\ argv.skip_qtbase /\ argv.skip_qtwebkit /\ argv.dry_run
    /\ ~argv.skip_git /\ fs.isdir_git = "no" /\ fs.isExe_qmake = "no"
    /\ pc = "exit" /\ exitCode = 0 /\ Len(events) = 2

(***************************************************************************)
(* C7: when both debug and release are set the run fails with the          *)
(* configuration error before the prompt is written, before any command is *)
(* echoed and before any invocation, and exits with code 1.                *)
(***************************************************************************)
C7_ModeConflictFirst ==
    (argv.debug /\ argv.release /\ pc # "main") =>
        /\ prompts = 0
        /\ events = <<>>
        /\ pc \in {"raised", "exit"}
        /\ error = [type |-> "RuntimeError",
                    msg |-> <<"Cannot build with both debug and release mode enabled.">>]
        /\ pc = "exit" => (exitCode = 1 /\ stderr = [uniform |-> TRUE, cause |-> error.msg])

\* a run with both flags and without --confirm, ended
C7_Witness ==
    /\ argv.debug /\ argv.release /\ ~argv.confirm
    /\ pc = "exit" /\ exitCode = 1 /\ prompts = 0

(***************************************************************************)
(* C8: in every stage's argument list the user's extra flags come after    *)
(* every flag the script computes, the -debug/-release flag included: the  *)
(* configure command ends with the words of qt_config, and the qmake       *)
(* command is the tool followed by qmake_args and phantomjs_qmake_args.    *)
(***************************************************************************)
EndsWith(cmd, words) ==
    /\ Len(words) <= Len(cmd)
    /\ SubSeq(cmd, Len(cmd) - Len(words) + 1, Len(cmd)) = words

C8_UserFlagsLast ==
    \A i \in DOMAIN events :
        LET cmd == events[i].cmd
        IN  /\ cmd[1] = ConfigureFixed(environ)[1] =>
                EndsWith(cmd, QtConfigWords(argv))
            /\ cmd[1] = qmakePath(environ) =>
                cmd = <<qmakePath(environ)>> \o argv.qmake_args
                          \o argv.phantomjs_qmake_args

(***************************************************************************)
(* C9: on Darwin, when OPENSSL names a path without the marker header, the *)
(* configure step ends in an error reported through the uniform failure    *)
(* message, which names that path, with exit code 1; the search list is    *)
(* not probed and configure is not invoked.                                *)
(***************************************************************************)
C9_OverrideWithoutHeader ==
    (/\ environ.system = "Darwin" /\ environ.OPENSSL # ""
     /\ fs.probed # <<>>
     /\ fs.probed[1] = <<OverrideHeader(environ.OPENSSL), FALSE>>) =>
        /\ Len(fs.probed) = 1
        /\ \A i \in DOMAIN events : events[i].cmd[1] # ConfigureFixed(environ)[1]
        /\ pc \in {"raised", "exit"}
        /\ pc = "exit" =>
              /\ exitCode = 1
              /\ stderr.uniform
              /\ \E k \in DOMAIN stderr.cause : stderr.cause[k] = environ.OPENSSL

(***************************************************************************)
(* C10: on every platform, when no job count is given and MAKEFLAGS does   *)
(* not match "-j <number>", the make command carries a job count equal to  *)
(* the CPU count; when MAKEFLAGS matches, it carries no job count.         *)
(***************************************************************************)
HasJobCount(mk, n) ==
    \E i \in DOMAIN mk : i < Len(mk) /\ mk[i] = PyStr("-j") /\ mk[i + 1] = PyInt(n)
HasNoJobCount(mk) == \A i \in DOMAIN mk : mk[i] # PyStr("-j")

DefaultJobCount ==
    IF ReMatchJobs(environ.MAKEFLAGS)
    THEN HasNoJobCount(makeCommand)
    ELSE HasJobCount(makeCommand, environ.cpu_count)

MakeSteps == {"qtbase_make", "qtwebkit_install", "phantomjs_make"}

\* the command has one -j, and the word after it is n
CarriesJobCount(cmd, n) ==
    /\ Cardinality({i \in DOMAIN cmd : cmd[i] = "-j"}) = 1
    /\ \E i \in DOMAIN cmd : i < Len(cmd) /\ cmd[i] = "-j" /\ cmd[i + 1] = ToString(n)

C11_ExplicitJobCount ==
    argv.jobs # None =>
        \A i \in DOMAIN events :
            events[i].step \in MakeSteps => CarriesJobCount(events[i].cmd, argv.jobs[1])

(***************************************************************************)
(* C12: with skip_configure_qtbase set and skip_qtbase not set, the base   *)
(* stage never issues the configure command, whatever the other flags are  *)
(* (git_clean_qtbase and skip_git included), and a base stage that returns *)
(* has issued make in qtbase.                                              *)
(***************************************************************************)
IsConfigure(e) == e.cmd[1] = ConfigureFixed(environ)[1]
IsQtBaseMake(e) ==
    e.cwd = QtBaseDir /\ e.cmd = [i \in DOMAIN makeCommand |-> str(makeCommand[i])]

\* no configure command in the events; after the base stage returned, make was
\* echoed in qtbase, and spawned there unless the run is a dry run
ConfigureSkippedMakeRun ==
    /\ \A i \in DOMAIN events : ~IsConfigure(events[i])
    /\ pc = "qtwebkit" =>
          /\ \E i \in DOMAIN events : IsEcho(events[i]) /\ IsQtBaseMake(events[i])
          /\ ~argv.dry_run =>
                \E i \in DOMAIN events : events[i].op = "Popen" /\ IsQtBaseMake(events[i])

Invocation(e) == [op |-> e.op, cwd |-> e.cwd, cmd |-> e.cmd]
Invocations(evs) == [i \in DOMAIN evs |-> Invocation(evs[i])]
IsEngine(e) == StageOf(e) = 3

C13_SkipConfigureQtWebKit ==
    (argv.skip_configure_qtwebkit /\ ~argv.skip_qtwebkit /\ pc = "phantomjs") =>
        Invocations(SelectSeq(events, IsEngine))
            # Invocations(QtWebKitRun([options EXCEPT !.skip_configure_qtwebkit = FALSE],
                                      makeCommand))

(***************************************************************************)
(* C14: every flag given with --webkit-qmake-args is an argument of an     *)
(* engine-stage invocation, and every flag given with --qmake-args is an   *)
(* argument of every qmake invocation of the run.                          *)
(***************************************************************************)
HasArgument(cmd, flag) == \E j \in DOMAIN cmd : cmd[j] = flag
IsQmake(e) == e.cmd[1] = qmakePath(environ)

C14_QmakeArgsForwarded ==
    /\ (pc = "phantomjs" /\ ~argv.skip_qtwebkit) =>
          \A k \in DOMAIN argv.webkit_qmake_args :
              \E i \in DOMAIN events :
                  IsEngine(events[i]) /\ HasArgument(events[i].cmd, argv.webkit_qmake_args[k])
    /\ \A i \in DOMAIN events :
          IsQmake(events[i]) =>
              \A k \in DOMAIN argv.qmake_args :
                  HasArgument(events[i].cmd, argv.qmake_args[k])

(***************************************************************************)
(* C15: every value of a repeated --qt-config reaches the configure        *)
(* command as its own arguments: the command holds the space-separated     *)
(* words of each value, in the order given, and no word made of the end of *)
(* one value and the start of the next.                                    *)
(***************************************************************************)
\* the words of each value, value after value
WordsOfEach(values) == Concat([i \in DOMAIN values |-> Split(values[i])])

HasRun(cmd, words) ==
    \E k \in 1..(Len(cmd) + 1) :
        /\ k + Len(words) - 1 <= Len(cmd)
        /\ SubSeq(cmd, k, k + Len(words) - 1) = words

C15_QtConfigValuesApart ==
    \A i \in DOMAIN events :
        IsConfigure(events[i]) => HasRun(events[i].cmd, WordsOfEach(argv.qt_config))

(***************************************************************************)
(* C16: the (working directory, command line) previews a dry run echoes    *)
(* are, in order, those a non-dry run with the same options and            *)
(* environment echoes when every child exits 0 and qmake exists; and the   *)
(* number of previews is the number of processes that non-dry run spawns.  *)
(***************************************************************************)
Preview(e) == [cwd |-> e.cwd, cmd |-> e.cmd]
Previews(evs) == [i \in DOMAIN evs |-> Preview(evs[i])]

\* the answers os.path.exists gave in this run
Existing == [h \in {fs.probed[i][1] : i \in DOMAIN fs.probed} |->
                \E i \in DOMAIN fs.probed : fs.probed[i] = <<h, TRUE>>]

\* a non-dry run that ended with status 0, every child having exited 0
SucceededForReal ==
    /\ Constructed /\ pc = "exit" /\ exitCode = 0 /\ ~argv.dry_run
    /\ \A i \in DOMAIN events : events[i].op = "Popen" => events[i].returncode = 0

C16_DryRunIsFaithfulPreview ==
    SucceededForReal =>
        LET dry == SelectSeq(Run([options EXCEPT !.dry_run = TRUE], environ,
                                 makeCommand, Existing), IsEcho)
        IN  /\ Previews(dry) = Previews(Echoes)
            /\ Len(dry) = Len(SelectSeq(events, IsSpawn))

(***************************************************************************)
(* C17: on Darwin without an OPENSSL override and without the marker       *)
(* header at any search location, the configuration error is raised before *)
(* any external invocation of the run: no git submodule command, no        *)
(* removal of stale artifacts and no git clean precedes it.                *)
(***************************************************************************)
\* the search list was probed and no location has the header
NoHeaderAnywhere ==
    /\ environ.system = "Darwin" /\ environ.OPENSSL = ""
    /\ fs.probed # <<>>
    /\ \A i \in DOMAIN fs.probed : fs.probed[i][2] = FALSE

\* the run is ending with "Could not find OpenSSL" through the uniform message
OpensslErrorRaised ==
    /\ error = [type |-> "RuntimeError", msg |-> <<"Could not find OpenSSL">>]
    /\ pc \in {"raised", "exit"}
    /\ pc = "exit" => (exitCode = 1 /\ stderr = [uniform |-> TRUE, cause |-> error.msg])

C17_OpensslErrorBeforeAnything ==
    NoHeaderAnywhere =>
        /\ OpensslErrorRaised
        /\ \A i \in DOMAIN events : ~IsSpawn(events[i])

\* what may come before the configure step: the fetch stage's git commands, the
\* rm of the imported libraries, git clean in qtbase
IsBeforeConfigure(e) ==
    \/ IsGit(e) /\ e.cmd[2] = "submodule" /\ e.cwd = root
    \/ e.op = "call" /\ e.cmd[1] = "rm" /\ e.cmd[2] # "-rf"
    \/ IsGit(e) /\ e.cmd[2] = "clean" /\ e.cwd = QtBaseDir

\* C17 as amended: the error is raised in the configure step of the base stage,
\* before the configure command or any later command is issued; the commands of
\* the fetch stage, the removals and git clean have been issued by then.
C17_OpensslErrorBeforeConfigure ==
    NoHeaderAnywhere =>
        /\ OpensslErrorRaised
        /\ \A i \in DOMAIN events : IsBeforeConfigure(events[i])

\* such a run in a git checkout, ended: submodules fetched, libraries removed,
\* qtbase cleaned, then the error
C17_Witness ==
    /\ NoHeaderAnywhere /\ Len(fs.probed) = Len(openssl_search_paths)
    /\ pc = "exit" /\ exitCode = 1 /\ ~argv.dry_run
    /\ \E i, j, k \in DOMAIN events :
          /\ i < j /\ j < k
          /\ events[i].op = "Popen" /\ events[i].cmd = <<"git", "submodule", "update">>
          /\ events[j].op = "call" /\ events[j].cmd[1] = "rm"
          /\ events[k].op = "Popen" /\ events[k].cmd = <<"git", "clean", "-xfd">>

(***************************************************************************)
(* C18: on Darwin without an OPENSSL override the locations are probed in  *)
(* the order Brew, MacPorts and the search stops at the first one that has *)
(* the marker header: the configure command gets the include/lib flags of  *)
(* exactly that location, whichever locations have the header; if none has *)
(* it the configuration error is raised.                                   *)
(***************************************************************************)
\* the locations probed that have the header.  A probe changes nothing, so that
\* the search stopped at the first hit is read from the command: the locations
\* after the hit add nothing to it.
Hits == {i \in DOMAIN fs.probed : fs.probed[i][2]}

C18_SearchStopsAtFirst ==
    (environ.system = "Darwin" /\ environ.OPENSSL = "" /\ fs.probed # <<>>) =>
        /\ \A i \in DOMAIN fs.probed : fs.probed[i][1] = openssl_search_paths[i].header
        /\ IF Hits = {}
           THEN Len(fs.probed) = Len(openssl_search_paths) /\ OpensslErrorRaised
           ELSE \A n \in DOMAIN events :
                    IsConfigure(events[n]) =>
                        \A k \in DOMAIN openssl_search_paths :
                            HasRun(events[n].cmd, openssl_search_paths[k].flags)
                                <=> (k \in Hits /\ \A j \in Hits : k <= j)

(***************************************************************************)
(* C19: in a non-dry run every process spawned is preceded by the console  *)
(* line that gives its working directory and its command line, the rm and  *)
(* cp commands of the base and engine stages included.                     *)
(***************************************************************************)
C19_EverySpawnEchoed ==
    ~argv.dry_run =>
        \A i \in DOMAIN events :
            IsSpawn(events[i]) =>
                /\ i > 1
                /\ IsEcho(events[i - 1])
                /\ Preview(events[i - 1]) = Preview(events[i])

(***************************************************************************)
(* C20: in a non-dry run, when qmake is not an existing executable file as *)
(* the application stage starts, the run fails with an error that names    *)
(* the missing path and exit code 1, and neither qmake nor the             *)
(* application's make is invoked.  The tool is looked for at that point    *)
(* only, after the earlier stages have run, and its absence does not       *)
(* matter in a dry run.                                                    *)
(***************************************************************************)
QmakeError ==
    [type |-> "RuntimeError",
     msg |-> <<"Could not find QMake executable: ", qmakePath(environ)>>]
IsApplicationMake(e) ==
    e.cwd = root /\ e.cmd = [i \in DOMAIN makeCommand |-> str(makeCommand[i])]

C20_QmakeMissingIsFatal ==
    /\ (fs.isExe_qmake = "no" /\ ~argv.dry_run) =>
          /\ error = QmakeError
          /\ pc \in {"raised", "exit"}
          /\ pc = "exit" => (exitCode = 1 /\ stderr = [uniform |-> TRUE, cause |-> error.msg])
          /\ \A i \in DOMAIN events :
                ~IsQmake(events[i]) /\ ~IsApplicationMake(events[i])
          /\ ~argv.skip_qtbase =>
                \E i \in DOMAIN events : events[i].op = "Popen" /\ IsQtBaseMake(events[i])
          /\ ~argv.skip_qtwebkit =>
                \E i \in DOMAIN events : events[i].op = "Popen" /\ IsEngine(events[i])
    /\ fs.isExe_qmake # "unread" => pc \in {"phantomjs_make", "raised", "exit"}
    /\ error = QmakeError => (fs.isExe_qmake = "no" /\ ~argv.dry_run)
    /\ (fs.isExe_qmake = "no" /\ argv.dry_run) =>
          /\ error = NoError
          /\ \E i \in DOMAIN events : IsEcho(events[i]) /\ IsQmake(events[i])

\* a full non-dry build that reached the application stage without qmake, ended
C20_Witness ==
    /\ fs.isExe_qmake = "no" /\ ~argv.dry_run
    /\ ~argv.skip_qtbase /\ ~argv.skip_qtwebkit
    /\ pc = "exit" /\ exitCode = 1
    /\ \E k \in DOMAIN stderr.cause : stderr.cause[k] = qmakePath(environ)
    /\ \E i \in DOMAIN events : events[i].op = "Popen" /\ IsEngine(events[i])

(***************************************************************************)
(* C21: in the engine stage the removal of the libraries installed before, *)
(* make install and the two copies into qtbase are issued only after the   *)
(* build driver returned 0, in that order and each at most once; when the  *)
(* build driver returns nonzero none of them is issued and the application *)
(* stage is never attempted.                                               *)
(***************************************************************************)
BuildDriver == WebKitCommand(DefaultOptions)[1]
IsBuildDriver(e) == e.cmd[1] = BuildDriver
ReleaseDir == abspath("src/qt/webkit/WebKitBuild/Release")
QtBaseLibDir == abspath("src/qt/qtbase/lib/")

\* the place of a command among the steps that follow the build driver, 0 for
\* every other command
AfterBuild(e) ==
    CASE e.op = "call" /\ e.cmd[1] = "rm" /\ e.cmd[2] = "-rf" -> 1
      [] e.cwd = ReleaseDir -> 2
      [] e.op = "call" /\ e.cmd[1] = "cp" /\ e.cmd[3] = QtBaseLibDir -> 3
      [] e.op = "call" /\ e.cmd[1] = "cp" -> 4
      [] OTHER -> 0

\* a command as issued: the "call" of a shell command, the echo of any other
IsIssued(e) == e.op = "call" \/ IsEcho(e)
IsIssuedAfterBuild(e) == IsIssued(e) /\ AfterBuild(e) > 0
IssuedAfterBuild == SelectSeq(events, IsIssuedAfterBuild)

\* the build driver was issued and, where it was spawned, it exited 0
BuildDriverReturnedZero ==
    /\ \E j \in DOMAIN events : IsEcho(events[j]) /\ IsBuildDriver(events[j])
    /\ \A j \in DOMAIN events :
          (events[j].op = "Popen" /\ IsBuildDriver(events[j])) => events[j].returncode = 0
    /\ ~argv.dry_run => \E j \in DOMAIN events :
                            events[j].op = "Popen" /\ IsBuildDriver(events[j])

C21_InstallAfterBuildOnly ==
    LET kind == [i \in DOMAIN events |-> AfterBuild(events[i])]
        after == {i \in DOMAIN events : kind[i] > 0}
        issued == IssuedAfterBuild
        failed == \E j \in DOMAIN events :
                      /\ events[j].op = "Popen" /\ events[j].returncode # 0
                      /\ IsBuildDriver(events[j])
    IN  /\ after # {} =>
              /\ BuildDriverReturnedZero
              /\ \A j \in DOMAIN events :
                    IsBuildDriver(events[j]) => \A i \in after : j < i
        /\ \A i \in 1..(Len(issued) - 1) :
              AfterBuild(issued[i]) < AfterBuild(issued[i + 1])
        /\ failed =>
              /\ after = {}
              /\ \A i \in DOMAIN events : StageOf(events[i]) # 4
              /\ pc \in {"raised", "exit"}
              /\ pc = "exit" => exitCode = 1

\* a finished non-dry build: driver, rm -rf, make install (which failed, its
\* status is dropped), the two copies, then the application
C21_Witness ==
    /\ pc = "exit" /\ exitCode = 0 /\ ~argv.dry_run
    /\ BuildDriverReturnedZero
    /\ [i \in DOMAIN IssuedAfterBuild |-> AfterBuild(IssuedAfterBuild[i])] = <<1, 2, 3, 4>>
    /\ \E i \in DOMAIN events :
          events[i].op = "Popen" /\ AfterBuild(events[i]) = 2 /\ events[i].returncode # 0
    /\ \E i \in DOMAIN events : events[i].op = "Popen" /\ IsQmake(events[i])

(***************************************************************************)
(* C22: unless confirm is set, nothing is invoked before the user answered *)
(* the prompt: the answer "n" ends the run with no invocation and exit     *)
(* code 0, the answer "y" or an empty line starts the pipeline, and any    *)
(* other answer makes the prompt come again with nothing invoked.          *)
(***************************************************************************)
Proceeds == {<<"y">>, <<>>}

C22_PromptBeforeAnything ==
    [][/\ (~argv.confirm /\ events' # <<>>) => answer' \in Proceeds
       /\ pc = "prompt" =>
             /\ events' = <<>>
             /\ prompts' = prompts + 1
             /\ answer' = <<"n">> => (pc' = "exit" /\ exitCode' = 0)
             /\ answer' \in Proceeds => (pc' = "construct" /\ exitCode' = -1)
             /\ answer' \notin (Proceeds \cup {<<"n">>}) =>
                   (pc' = "prompt" /\ exitCode' = -1)
       /\ answer # <<"n">>]_vars

\* a build that was confirmed with "y" at the second prompt and ran to its end
C22_Witness ==
    /\ ~argv.confirm /\ ~argv.dry_run
    /\ prompts = 2 /\ answer = <<"y">>
    /\ pc = "exit" /\ exitCode = 0
    /\ \E i \in DOMAIN events : events[i].op = "Popen" /\ IsQmake(events[i])

====
